---- MODULE Spec2Model ----
(***************************************************************************)
(* Collection and enrichment pipeline of llm-financial-news-analyzer:      *)
(*   data_collection.py       extract_article_text, fetch_news_paginated   *)
(*   news_collector.py        FinancialNewsCollector: collecting, saving   *)
(*   simple_preprocessing.py  clean_text, process_file, main               *)
(* One behaviour follows one entry point, drawn in Init.  The network, the *)
(* feed parser and the file system are the environment: every response and *)
(* every I/O outcome is drawn from a small set in the action that uses it. *)
(***************************************************************************)
EXTENDS Integers, Sequences, FiniteSets, TLC

VARIABLES
    entry,                \* the entry point this behaviour runs
    pc,                   \* position inside the entry point
    ret,                  \* how the last call ended: [kind, val]
    NEWSPAPER_AVAILABLE,  \* data_collection.py module flag, set at import
    ext_env,              \* what the network answers for the url being extracted
    total_articles,       \* fetch_news_paginated argument
    page_size,            \* fetch_news_paginated local
    page,                 \* fetch_news_paginated local
    all_articles,         \* fetch_news_paginated local
    requested,            \* page numbers put in a request url so far
    reports,              \* totalResults values the provider has reported so far
    stop,                 \* which exit of the pagination loop was taken
    page_trace,           \* the last provider page: items held, items that do not raise
    sv_articles,          \* save_articles argument
    sv_filepath,          \* save_articles argument
    has_api_key,          \* NEWS_API_KEY is set and is not the placeholder
    MAX_ARTICLES_PER_RSS_FEED,   \* configuration value
    newsapi_articles,     \* FinancialNewsCollector field
    rss_articles,         \* FinancialNewsCollector field
    self_all_articles,    \* FinancialNewsCollector field all_articles
    feed_trace,           \* per feed: what the parser did in collect_all
    prior,                \* the canonical file as the run found it
    fs,                   \* file system: path -> file
    ct_text,              \* clean_text argument
    csv_files,            \* the files of the list of main, or the one given to process_file
    setitem_strict,       \* pandas refuses a value the column's dtype cannot hold
    passes,               \* the calls of process_file so far
    file_idx,             \* main: position in csv_files
    successful            \* main: counter of line 191

fetchVars == <<total_articles, page_size, page, all_articles, requested, reports, stop,
               page_trace>>
saveVars == <<sv_articles, sv_filepath>>
configVars == <<has_api_key, MAX_ARTICLES_PER_RSS_FEED>>
collectorVars == <<newsapi_articles, rss_articles, self_all_articles, feed_trace>>
enrichVars == <<ct_text, csv_files, setitem_strict, passes, file_idx, successful>>

vars == <<entry, pc, ret, NEWSPAPER_AVAILABLE, ext_env, fetchVars, saveVars,
          configVars, collectorVars, prior, fs, enrichVars>>

(***************************************************************************)
(* Bounds of the model.                                                    *)
(***************************************************************************)
MaxTotal == 3          \* largest total_articles besides the default 50
MaxBatch == 2          \* most items in one provider page
MaxTotalResults == 3   \* largest totalResults besides 30

(***************************************************************************)
(* Python values.  A text is [k, n]: an identity k and a length n; None is *)
(* its own value and every string of length 0 is the one empty string.     *)
(* A dict is a function whose DOMAIN is its set of keys.                   *)
(***************************************************************************)
None == [k |-> "None", n |-> 0]
EmptyStr == [k |-> "", n |-> 0]
Str(id, n) == IF n = 0 THEN EmptyStr ELSE [k |-> id, n |-> n]
Lit(s) == Str(s, Len(s))
Truthy(v) == v # None /\ v.n > 0
Get(d, key, default) == IF key \in DOMAIN d THEN d[key] ELSE default
Min(a, b) == IF a <= b THEN a ELSE b

Returned(v) == [kind |-> "return", val |-> v]
Raised(e) == [kind |-> "raise", val |-> e]
NotCalled == [kind |-> "none", val |-> "none"]

(***************************************************************************)
(* The file system.  to_csv writes None and NaN as empty cells.            *)
(***************************************************************************)
NaN == [k |-> "NaN", n |-> 0]
NoFile == [st |-> "none", rows |-> <<>>]
Truncated == [st |-> "truncated", rows |-> <<>>]
File(rows) == [st |-> "rows", rows |-> rows]

CsvCell(v) == IF v = None \/ v = NaN THEN EmptyStr ELSE v
CsvRow(r) == [c \in DOMAIN r |-> CsvCell(r[c])]
CsvRows(rows) == [i \in 1..Len(rows) |-> CsvRow(rows[i])]

\* df.to_csv(path): "ok" writes the table; a failure leaves the file as it
\* was (open failed) or truncated (the write failed after open).
CsvOutcomes == {"ok", "open_failed", "write_failed"}
ToCsv(f, path, rows, outcome) ==
    CASE outcome = "ok" -> [f EXCEPT ![path] = File(CsvRows(rows))]
      [] outcome = "open_failed" -> f
      [] outcome = "write_failed" -> [f EXCEPT ![path] = Truncated]

\* A path is <<directory, base name, timestamp>>; 0 is "no timestamp".
RAW_DATA_PATH == <<"data/raw", "financial_news", 0>>
Stamped(base, ts) == <<"data/raw", base, ts>>
OutPath == <<"out", "articles", 0>>
BarePath == <<"", "articles", 0>>
Paths ==
    {RAW_DATA_PATH, OutPath, BarePath}
    \cup {Stamped(b, 1) : b \in {"financial_news", "financial_news_backup",
                                 "newsapi", "rss_news"}}

(***************************************************************************)
(* extract_article_text                                                    *)
(***************************************************************************)
PRIMARY_MIN_LEN == 100

\* bs4 is imported only in the ImportError branch of the newspaper import.
BeautifulSoupImported == ~NEWSPAPER_AVAILABLE

PrimaryAccepted(e) ==
    /\ NEWSPAPER_AVAILABLE
    /\ ~e.primary.raises
    /\ Truthy(e.primary.text)
    /\ e.primary.text.n > PRIMARY_MIN_LEN

extract_article_text(e) ==
    IF PrimaryAccepted(e) THEN e.primary.text
    ELSE IF e.http.raises THEN EmptyStr
    ELSE IF e.http.status = 200
         THEN IF BeautifulSoupImported
              THEN e.http.text
              ELSE EmptyStr      \* NameError: BeautifulSoup, caught at line 49
         ELSE EmptyStr

PrimaryOutcomes ==
    {[raises |-> TRUE, text |-> EmptyStr]}
    \cup {[raises |-> FALSE, text |-> Str("primary", n)] : n \in {0, 40, 100, 101, 150}}
HttpOutcomes ==
    {[raises |-> TRUE, status |-> 0, text |-> EmptyStr]}
    \cup {[raises |-> FALSE, status |-> s, text |-> EmptyStr] : s \in {404, 500}}
    \cup {[raises |-> FALSE, status |-> 200, text |-> Str("page", n)] : n \in {0, 20, 60}}
ExtractEnvs == [primary : PrimaryOutcomes, http : HttpOutcomes]

ExtractCall ==
    /\ entry = "extract_article_text" /\ pc = "call"
    /\ ret' = Returned(extract_article_text(ext_env))
    /\ pc' = "done"
    /\ UNCHANGED <<entry, NEWSPAPER_AVAILABLE, ext_env, fetchVars, saveVars,
                   configVars, collectorVars, prior, fs, enrichVars>>

(***************************************************************************)
(* fetch_news_paginated                                                    *)
(***************************************************************************)
API_MAX_PAGE_SIZE == 100
DEFAULT_TOTAL_ARTICLES == 50
FALLBACK_MIN_LEN == 50

TotalArticlesSet == 1..MaxTotal \cup {DEFAULT_TOTAL_ARTICLES}
TotalResultsSet == 0..MaxTotalResults \cup {30}

\* One element of a provider page: the item dict and what the network
\* answers when the item's url is fetched.
Item(keys, desc) ==
    [x \in keys |->
        CASE x = "title" -> Lit("t1")
          [] x = "publishedAt" -> Lit("2026-02-28")
          [] x = "source" -> Lit("s1")
          [] x = "url" -> Lit("u1")
          [] x = "description" -> desc]
ItemKeys == {"title", "publishedAt", "source", "url"}
WebDown == [primary |-> [raises |-> TRUE, text |-> EmptyStr],
            http |-> [raises |-> TRUE, status |-> 0, text |-> EmptyStr]]
WebLong == [primary |-> [raises |-> FALSE, text |-> Str("primary", 150)],
            http |-> [raises |-> TRUE, status |-> 0, text |-> EmptyStr]]
WebPage == [primary |-> [raises |-> TRUE, text |-> EmptyStr],
            http |-> [raises |-> FALSE, status |-> 200, text |-> Str("page", 60)]]
FetchItems ==
    { [item |-> Item(ItemKeys \cup {"description"}, Str("desc", 30)), web |-> WebLong],
      [item |-> Item(ItemKeys \cup {"description"}, Str("desc", 30)), web |-> WebDown],
      [item |-> Item(ItemKeys, None), web |-> WebDown],
      [item |-> Item(ItemKeys \cup {"description"}, None), web |-> WebDown],
      [item |-> Item(ItemKeys \cup {"description"}, None), web |-> WebPage],
      [item |-> Item(ItemKeys \ {"title"}, None), web |-> WebDown] }

\* Lines 107-124 for one item: the text after the description fallback.
ItemText(b) ==
    LET text == extract_article_text(b.web)
    IN IF ~Truthy(text) \/ text.n < FALLBACK_MIN_LEN
       THEN Get(b.item, "description", EmptyStr)
       ELSE text

\* item['title'], item['url'], item['publishedAt'], item['source'] raise
\* KeyError; len(text) at line 115 raises TypeError on a null description.
ItemRaises(b) ==
    \/ ItemKeys \ DOMAIN b.item # {}
    \/ LET text == extract_article_text(b.web)
       IN /\ ~Truthy(text) \/ text.n < FALLBACK_MIN_LEN
          /\ Get(b.item, "description", EmptyStr) = None

ItemRecord(b) ==
    [title |-> b.item["title"],
     published |-> b.item["publishedAt"],
     source |-> b.item["source"],
     url |-> b.item["url"],
     text |-> ItemText(b),
     description |-> Get(b.item, "description", EmptyStr)]

\* The for loop of lines 103-127 from item i on: the list so far and whether
\* an item raised (which leaves the loop through the except of line 136).
RECURSIVE ProcessBatchWholePage(_, _, _, _)
ProcessBatchWholePage(batch, i, acc, total) ==
    IF i > Len(batch)
    THEN [articles |-> acc, raised |-> FALSE]
    ELSE IF ItemRaises(batch[i])
         THEN [articles |-> acc, raised |-> TRUE]
         ELSE ProcessBatchWholePage(batch, i + 1, Append(acc, ItemRecord(batch[i])), total)
RECURSIVE ProcessBatch(_, _, _, _)
ProcessBatch(batch, i, acc, total) ==
    IF i > Len(batch) \/ Len(acc) >= total
    THEN [articles |-> acc, raised |-> FALSE]
    ELSE IF ItemRaises(batch[i])
         THEN [articles |-> acc, raised |-> TRUE]
         ELSE ProcessBatch(batch, i + 1, Append(acc, ItemRecord(batch[i])), total)

\* Line 132.
ReachedLastPageLate(p, totalResults, size) == p > (totalResults \div size) + 2
ReachedLastPage(p, totalResults, size) == p > (totalResults \div size) + 1

Batches == UNION {[1..n -> FetchItems] : n \in 0..MaxBatch}
Responses ==
    {[raises |-> TRUE]}
    \cup {[raises |-> FALSE, status |-> "error"]}
    \cup {[raises |-> FALSE, status |-> "ok", articles |-> <<>>]}
    \cup {[raises |-> FALSE, status |-> "ok", articles |-> b] : b \in Batches \ {<<>>}}
    \cup {[raises |-> FALSE, status |-> "ok", articles |-> b, totalResults |-> t] :
            b \in Batches \ {<<>>}, t \in TotalResultsSet}

\* What the provider's page held: its items, those whose processing does not
\* raise, and the length of the list when the page arrived.
PageTrace(batch, before) ==
    [items |-> Len(batch),
     sound |-> Cardinality({i \in 1..Len(batch) : ~ItemRaises(batch[i])}),
     before |-> before]
NoPage == [items |-> 0, sound |-> 0, before |-> 0]

\* One iteration of the while loop, lines 73-138.
FetchPage ==
    /\ entry = "fetch_news_paginated" /\ pc = "loop"
    /\ Len(all_articles) < total_articles
    /\ requested' = requested \cup {page}
    /\ \E data \in Responses :
        IF data.raises
        THEN /\ stop' = "exception" /\ pc' = "save"
             /\ UNCHANGED <<all_articles, page, reports, page_trace>>
        ELSE IF data.status # "ok"
        THEN /\ stop' = "api_error" /\ pc' = "save"
             /\ UNCHANGED <<all_articles, page, reports, page_trace>>
        ELSE IF data.articles = <<>>
        THEN /\ stop' = "no_more" /\ pc' = "save"
             /\ UNCHANGED <<all_articles, page, reports, page_trace>>
        ELSE LET r == ProcessBatch(data.articles, 1, all_articles, total_articles)
             IN /\ all_articles' = r.articles
                /\ page_trace' = PageTrace(data.articles, Len(all_articles))
                /\ reports' = IF "totalResults" \in DOMAIN data
                              THEN reports \cup {data.totalResults}
                              ELSE reports
                /\ IF r.raised
                   THEN stop' = "exception" /\ pc' = "save" /\ page' = page
                   ELSE /\ page' = page + 1
                        /\ IF ReachedLastPage(page + 1, Get(data, "totalResults", 0), page_size)
                           THEN stop' = "last_page" /\ pc' = "save"
                           ELSE stop' = stop /\ pc' = "loop"
    /\ UNCHANGED <<entry, ret, NEWSPAPER_AVAILABLE, ext_env, total_articles, page_size,
                   saveVars, configVars, collectorVars, prior, fs, enrichVars>>

\* The while condition of line 73 fails.
FetchLoopExit ==
    /\ entry = "fetch_news_paginated" /\ pc = "loop"
    /\ Len(all_articles) >= total_articles
    /\ stop' = "count" /\ pc' = "save"
    /\ UNCHANGED <<entry, ret, NEWSPAPER_AVAILABLE, ext_env, total_articles, page_size,
                   page, all_articles, requested, reports, page_trace,
                   saveVars, configVars, collectorVars, prior, fs, enrichVars>>

\* Lines 140-156: the snapshot, then the latest file; no exception is caught.
FetchSave ==
    /\ entry = "fetch_news_paginated" /\ pc = "save"
    /\ pc' = "done"
    /\ IF all_articles = <<>>
       THEN ret' = Returned(<<>>) /\ fs' = fs
       ELSE \E o1 \in CsvOutcomes :
              LET fs1 == ToCsv(fs, Stamped("financial_news", 1), all_articles, o1)
              IN IF o1 # "ok"
                 THEN ret' = Raised("OSError") /\ fs' = fs1
                 ELSE \E o2 \in CsvOutcomes :
                        /\ fs' = ToCsv(fs1, RAW_DATA_PATH, all_articles, o2)
                        /\ ret' = IF o2 = "ok" THEN Returned(all_articles)
                                  ELSE Raised("OSError")
    /\ UNCHANGED <<entry, NEWSPAPER_AVAILABLE, ext_env, fetchVars, saveVars,
                   configVars, collectorVars, prior, enrichVars>>

(***************************************************************************)
(* FinancialNewsCollector.save_articles                                    *)
(***************************************************************************)
MaxArticles == 3       \* most records in a list given to save_articles

\* pd.DataFrame(list of dicts): the columns are the union of the keys, and
\* a record without a key holds NaN in that column.
Columns(articles) == UNION {DOMAIN articles[i] : i \in 1..Len(articles)}
DataFrame(articles) ==
    [i \in 1..Len(articles) |->
        [c \in Columns(articles) |-> Get(articles[i], c, NaN)]]
DfColumns(df) == UNION {DOMAIN df[i] : i \in 1..Len(df)}

\* df.drop_duplicates(subset=[col], keep="first"): a row is dropped when an
\* earlier row holds the same value in col; null values equal each other.
RECURSIVE DropFrom(_, _, _, _, _)
DropFrom(df, col, i, seen, acc) ==
    IF i > Len(df) THEN acc
    ELSE IF df[i][col] \in seen
         THEN DropFrom(df, col, i + 1, seen, acc)
         ELSE DropFrom(df, col, i + 1, seen \cup {df[i][col]}, Append(acc, df[i]))
RECURSIVE DropBack(_, _, _, _, _)
DropBack(df, col, i, seen, acc) ==
    IF i < 1 THEN acc
    ELSE IF df[i][col] \in seen
         THEN DropBack(df, col, i - 1, seen, acc)
         ELSE DropBack(df, col, i - 1, seen \cup {df[i][col]}, <<df[i]>> \o acc)
drop_duplicates_keep_last(df, col) == DropBack(df, col, Len(df), {}, <<>>)
drop_duplicates(df, col) == DropFrom(df, col, 1, {}, <<>>)

\* Lines 203-206.
DedupColumnEveryRow(df) ==
    IF "url" \in DfColumns(df) /\ \A i \in 1..Len(df) : df[i]["url"] # NaN THEN "url"
    ELSE IF "title" \in DfColumns(df) THEN "title"
    ELSE "none"
DedupColumn(df) ==
    IF "url" \in DfColumns(df) THEN "url"
    ELSE IF "title" \in DfColumns(df) THEN "title"
    ELSE "none"

Deduplicated(articles) ==
    LET df == DataFrame(articles)
    IN IF DedupColumn(df) = "none" THEN df ELSE drop_duplicates(df, DedupColumn(df))

\* os.makedirs(os.path.dirname(filepath), exist_ok=True), line 208: raises
\* FileNotFoundError on the empty directory name of a bare file name, and
\* OSError when the directory cannot be created.
MakedirsOutcomes(filepath) == IF filepath[1] = "" THEN {"raise"} ELSE {"ok", "raise"}

\* Lines 197-216, given how makedirs and to_csv end.
save_articles(f, articles, filepath, mk, csv) ==
    IF articles = <<>> THEN [fs |-> f, ret |-> Returned(FALSE)]
    ELSE IF mk = "raise" THEN [fs |-> f, ret |-> Raised("OSError")]
    ELSE [fs |-> ToCsv(f, filepath, Deduplicated(articles), csv),
          ret |-> Returned(csv = "ok")]

\* The records given to save_articles: dicts that hold or lack a url and a
\* title.
SaveVals(x) == IF x = "url" THEN {Lit(""), Lit("u1"), Lit("u2")} ELSE {Lit("t1"), Lit("t2")}
SaveRecords ==
    {r \in UNION {[keys -> SaveVals("url") \cup SaveVals("title")] :
                    keys \in SUBSET {"url", "title"}} :
        \A x \in DOMAIN r : r[x] \in SaveVals(x)}
SaveLists == UNION {[1..n -> SaveRecords] : n \in 0..MaxArticles}

SaveArticlesCall ==
    /\ entry = "save_articles" /\ pc = "call"
    /\ \E mk \in MakedirsOutcomes(sv_filepath), csv \in CsvOutcomes :
         LET r == save_articles(fs, sv_articles, sv_filepath, mk, csv)
         IN fs' = r.fs /\ ret' = r.ret
    /\ pc' = "done"
    /\ UNCHANGED <<entry, NEWSPAPER_AVAILABLE, ext_env, fetchVars, saveVars,
                   configVars, collectorVars, prior, enrichVars>>

(***************************************************************************)
(* FinancialNewsCollector: collect_from_newsapi, collect_from_rss_feed,    *)
(* collect_all and save_all                                                *)
(***************************************************************************)
MaxEntries == 3        \* most entries of a feed when collect_all is the entry point
MaxRunEntries == 1     \* most entries of a feed when main is the entry point
MaxApiItems == 1       \* most items in a provider answer
MaxCap == 3            \* MAX_ARTICLES_PER_RSS_FEED is MaxCap - 1 or MaxCap

RSS_FEEDS == <<"feed1", "feed2">>
NEWSAPI_QUERIES == <<"q1">>
COLLECTED_AT == Lit("now")

\* Provider items; "source" |-> None makes item.get("source", {}).get("name")
\* raise AttributeError.
ApiItem(keys, content, desc, source) ==
    [x \in keys |->
        CASE x = "title" -> Lit("t3")
          [] x = "publishedAt" -> Lit("2026-02-28")
          [] x = "url" -> Lit("u3")
          [] x = "source" -> source
          [] x = "content" -> content
          [] x = "description" -> desc]
ApiKeys == {"title", "publishedAt", "url", "source"}
ApiItems ==
    { ApiItem(ApiKeys \cup {"content", "description"}, Str("content", 200),
              Str("desc", 30), Lit("s1")),
      ApiItem(ApiKeys \cup {"content", "description"}, None, Str("desc", 30), Lit("s1")),
      ApiItem(ApiKeys \cup {"content", "description"}, None, None, Lit("s1")),
      ApiItem(ApiKeys, None, None, Lit("s1")),
      ApiItem(ApiKeys \cup {"content", "description"}, None, Str("desc", 30), None) }
ApiAnswers ==
    {[raises |-> TRUE], [raises |-> FALSE, status |-> "error"]}
    \cup {[raises |-> FALSE, status |-> "ok", articles |-> b] :
            b \in UNION {[1..n -> ApiItems] : n \in 0..MaxApiItems}}

\* x or y on optional strings.
Or(x, y) == IF Truthy(x) THEN x ELSE y

\* Lines 69-79.
ApiArticle(item, query) ==
    [title |-> Get(item, "title", EmptyStr),
     published |-> Get(item, "publishedAt", EmptyStr),
     source |-> Get(item, "source", Lit("Unknown")),
     url |-> Get(item, "url", EmptyStr),
     text |-> Or(Get(item, "content", EmptyStr), Get(item, "description", EmptyStr)),
     description |-> Get(item, "description", EmptyStr),
     collection_method |-> Lit("newsapi"),
     collection_query |-> Lit(query),
     collected_at |-> COLLECTED_AT]

ApiItemRaises(item) == Get(item, "source", EmptyStr) = None

RECURSIVE ApiLoop(_, _, _, _)
ApiLoop(items, i, acc, query) ==
    IF i > Len(items) \/ ApiItemRaises(items[i]) THEN acc
    ELSE ApiLoop(items, i + 1, Append(acc, ApiArticle(items[i], query)), query)

\* Lines 42-89, given the provider's answer.
collect_from_newsapi(query, answer) ==
    IF ~has_api_key THEN <<>>
    ELSE IF answer.raises THEN <<>>
    ELSE IF answer.status # "ok" THEN <<>>
    ELSE ApiLoop(answer.articles, 1, <<>>, query)

\* Feed entries.  An entry holds the attributes the parser found; content
\* is a list of parts, and a part without "value" makes content[0].value
\* raise AttributeError.
MarkupSummary == [k |-> "<p>summary", n |-> 83]
EntryA == [title |-> Lit("t1"), link |-> Lit("u1"), published |-> Lit("d1"),
           summary |-> MarkupSummary]
EntryB == [title |-> Lit("t2"), updated |-> Lit("d2"),
           content |-> <<[value |-> Str("content", 300)]>>, summary |-> Str("summary", 80)]
EntryX == [title |-> Lit("t1"), link |-> Lit("u2"), content |-> <<[type |-> Lit("text/html")]>>]
EntryKinds == {EntryA, EntryB, EntryX}

\* text.replace("<p>", " ").replace("</p>", " ")..., lines 145-146: each
\* "<p>" becomes one blank.
StripInlineTags(t) == IF t = MarkupSummary THEN [k |-> " summary", n |-> t.n - 2] ELSE t

\* Lines 135-146.
EntryRaises(e) ==
    "content" \in DOMAIN e /\ e.content # <<>> /\ "value" \notin DOMAIN e.content[1]
EntryText(e) ==
    LET text == IF "content" \in DOMAIN e /\ e.content # <<>> THEN e.content[1].value
                ELSE IF "summary" \in DOMAIN e THEN e.summary
                ELSE IF "description" \in DOMAIN e THEN e.description
                ELSE EmptyStr
    IN IF Truthy(text) THEN StripInlineTags(text) ELSE text

\* Lines 148-158.
RssArticle(e, name) ==
    [title |-> Get(e, "title", EmptyStr),
     published |-> Get(e, "published", Get(e, "updated", EmptyStr)),
     source |-> Lit(name),
     url |-> Get(e, "link", EmptyStr),
     text |-> EntryText(e),
     description |-> Get(e, "summary", EmptyStr),
     collection_method |-> Lit("rss"),
     collection_source |-> Lit(name),
     collected_at |-> COLLECTED_AT]

RECURSIVE RssLoop(_, _, _, _)
RssLoop(entries, i, acc, name) ==
    IF i > Len(entries) \/ EntryRaises(entries[i]) THEN acc
    ELSE RssLoop(entries, i + 1, Append(acc, RssArticle(entries[i], name)), name)

\* Lines 124-166, given what feedparser.parse does for the feed.
collect_from_rss_feed_short(name, doc) ==
    IF doc.raises THEN <<>>
    ELSE RssLoop(SubSeq(doc.entries, 1,
                        Min(Len(doc.entries), MAX_ARTICLES_PER_RSS_FEED - 1)),
                 1, <<>>, name)
collect_from_rss_feed(name, doc) ==
    IF doc.raises THEN <<>>
    ELSE RssLoop(SubSeq(doc.entries, 1, Min(Len(doc.entries), MAX_ARTICLES_PER_RSS_FEED)),
                 1, <<>>, name)

RECURSIVE Concat(_, _)
Concat(lists, i) == IF i > Len(lists) THEN <<>> ELSE lists[i] \o Concat(lists, i + 1)

\* Lines 97-112.
collect_all_newsapi(answers) ==
    IF ~has_api_key THEN <<>>
    ELSE Concat([q \in 1..Len(NEWSAPI_QUERIES) |->
                    collect_from_newsapi(NEWSAPI_QUERIES[q], answers[q])], 1)

\* Lines 174-184.
collect_all_rss(docs) ==
    Concat([f \in 1..Len(RSS_FEEDS) |-> collect_from_rss_feed(RSS_FEEDS[f], docs[f])], 1)

FeedDocs(n) ==
    {[raises |-> TRUE]}
    \cup {[raises |-> FALSE, entries |-> es] : es \in UNION {[1..k -> EntryKinds] : k \in 0..n}}
EntryBound == IF entry = "main" THEN MaxRunEntries ELSE MaxEntries

\* What the parser did for a feed: whether parse raised, the entries within
\* the cap, and those of them whose processing does not raise.
FeedTrace(doc) ==
    IF doc.raises THEN [raises |-> TRUE, entries |-> 0, sound |-> 0]
    ELSE LET n == Min(Len(doc.entries), MAX_ARTICLES_PER_RSS_FEED)
         IN [raises |-> FALSE, entries |-> n,
             sound |-> Cardinality({i \in 1..n : ~EntryRaises(doc.entries[i])})]
NoFeed == [raises |-> FALSE, entries |-> 0, sound |-> 0]

\* collect_all, lines 226-245.
CollectAll ==
    /\ entry \in {"collect_all", "main"} /\ pc = "start"
    /\ \E answers \in [1..Len(NEWSAPI_QUERIES) ->
                          IF has_api_key THEN ApiAnswers ELSE {[raises |-> TRUE]}],
          docs \in [1..Len(RSS_FEEDS) -> FeedDocs(EntryBound)] :
         /\ newsapi_articles' = collect_all_newsapi(answers)
         /\ rss_articles' = collect_all_rss(docs)
         /\ self_all_articles' = collect_all_newsapi(answers) \o collect_all_rss(docs)
         /\ ret' = Returned(collect_all_newsapi(answers) \o collect_all_rss(docs))
         /\ feed_trace' = [f \in 1..Len(RSS_FEEDS) |-> FeedTrace(docs[f])]
    /\ pc' = IF entry = "main" THEN "collected" ELSE "done"
    /\ UNCHANGED <<entry, NEWSPAPER_AVAILABLE, ext_env, fetchVars, saveVars,
                   configVars, prior, fs, enrichVars>>

\* to_csv is reached only for a list that is not empty.
WriteOutcomes(articles) == IF articles = <<>> THEN {"ok"} ELSE CsvOutcomes

\* save_all, lines 255-274.  The directory of every path is data/raw, so
\* only the first makedirs can fail.
SaveAll ==
    /\ entry = "main" /\ pc = "collected"
    /\ pc' = "done"
    /\ IF self_all_articles = <<>>
       THEN ret' = Returned(FALSE) /\ fs' = fs
       ELSE \E mk \in MakedirsOutcomes(RAW_DATA_PATH), c1, c2 \in CsvOutcomes,
               c3 \in WriteOutcomes(newsapi_articles), c4 \in WriteOutcomes(rss_articles) :
              LET s1 == save_articles(fs, self_all_articles, RAW_DATA_PATH, mk, c1)
                  s2 == save_articles(s1.fs, self_all_articles,
                                      Stamped("financial_news_backup", 1), "ok", c2)
                  s3 == save_articles(s2.fs, newsapi_articles,
                                      Stamped("newsapi", 1), "ok", c3)
                  s4 == save_articles(s3.fs, rss_articles,
                                      Stamped("rss_news", 1), "ok", c4)
              IN IF s1.ret.kind = "raise" THEN ret' = s1.ret /\ fs' = s1.fs
                 ELSE IF s1.ret.val = FALSE THEN ret' = Returned(FALSE) /\ fs' = s1.fs
                 ELSE ret' = Returned(TRUE) /\ fs' = s4.fs
    /\ UNCHANGED <<entry, NEWSPAPER_AVAILABLE, ext_env, fetchVars, saveVars,
                   configVars, collectorVars, prior, enrichVars>>

(***************************************************************************)
(* simple_preprocessing.py: texts                                          *)
(* The tables of the enrichment pipeline hold cells [t, s, n]: t is the    *)
(* Python type of the value, s its characters when it is a str (a sequence *)
(* of one-character strings), n its value when it is a number or a bool.   *)
(***************************************************************************)
MaxLen == 5            \* longest text given to clean_text on its own

T(s) == [t |-> "str", s |-> s, n |-> 0]
NA == [t |-> "nan", s |-> <<>>, n |-> 0]
IntC(n) == [t |-> "int", s |-> <<>>, n |-> n]
FloatC(n) == [t |-> "float", s |-> <<>>, n |-> n]
BoolC(b) == [t |-> "bool", s |-> <<>>, n |-> IF b THEN 1 ELSE 0]

LowerLetters ==
    <<"a", "b", "c", "d", "e", "f", "g", "h", "i", "j", "k", "l", "m",
      "n", "o", "p", "q", "r", "s", "t", "u", "v", "w", "x", "y", "z">>
UpperLetters ==
    <<"A", "B", "C", "D", "E", "F", "G", "H", "I", "J", "K", "L", "M",
      "N", "O", "P", "Q", "R", "S", "T", "U", "V", "W", "X", "Y", "Z">>
Digits == <<"0", "1", "2", "3", "4", "5", "6", "7", "8", "9">>
Elems(seq) == {seq[i] : i \in DOMAIN seq}

IsSpace(c) == c \in {" ", "\t", "\n"}
IsDigit(c) == c \in Elems(Digits)
\* The class kept by the pattern of line 26.
Allowed(c) ==
    \/ c \in Elems(LowerLetters) \/ c \in Elems(UpperLetters) \/ IsDigit(c)
    \/ IsSpace(c) \/ c \in {".", ",", "!", "?", "-", "$", "%"}

Lower(c) ==
    IF c \in Elems(UpperLetters)
    THEN LowerLetters[CHOOSE i \in DOMAIN UpperLetters : UpperLetters[i] = c]
    ELSE c
str_lower(s) == [i \in 1..Len(s) |-> Lower(s[i])]

StartsWith(s, i, w) ==
    /\ i + Len(w) - 1 <= Len(s)
    /\ \A k \in 1..Len(w) : s[i + k - 1] = w[k]
Contains(s, w) == \E i \in 1..Len(s) : StartsWith(s, i, w)
Least(S) == CHOOSE j \in S : \A k \in S : j <= k

\* <.*?> at i: the index of the nearest ">" when no newline lies between,
\* 0 when the pattern does not match at i.
TagEnd(s, i) ==
    LET closers == {j \in (i + 1)..Len(s) : s[j] = ">"}
    IN IF s[i] # "<" \/ closers = {} THEN 0
       ELSE IF \E k \in (i + 1)..(Least(closers) - 1) : s[k] = "\n" THEN 0
       ELSE Least(closers)
RECURSIVE StripTags(_, _)
StripTags(s, i) ==
    IF i > Len(s) THEN <<>>
    ELSE IF TagEnd(s, i) # 0 THEN StripTags(s, TagEnd(s, i) + 1)
    ELSE <<s[i]>> \o StripTags(s, i + 1)

\* The last index of the run of non-whitespace that holds index i.
RunEnd(s, i) ==
    CHOOSE j \in i..Len(s) :
        /\ \A k \in i..j : ~IsSpace(s[k])
        /\ j = Len(s) \/ IsSpace(s[j + 1])
\* http\S+|www\S+ at i: the last index matched, 0 when there is no match.
UrlEnd(s, i) ==
    LET After(w) == IF /\ StartsWith(s, i, w)
                       /\ i + Len(w) <= Len(s)
                       /\ ~IsSpace(s[i + Len(w)])
                    THEN RunEnd(s, i + Len(w)) ELSE 0
    IN IF After(<<"h", "t", "t", "p">>) # 0 THEN After(<<"h", "t", "t", "p">>)
       ELSE After(<<"w", "w", "w">>)
RECURSIVE StripUrls(_, _)
StripUrls(s, i) ==
    IF i > Len(s) THEN <<>>
    ELSE IF UrlEnd(s, i) # 0 THEN StripUrls(s, UrlEnd(s, i) + 1)
    ELSE <<s[i]>> \o StripUrls(s, i + 1)

KeepAllowed(s) == SelectSeq(s, Allowed)

\* \s+ becomes one space.
RECURSIVE CollapseSpace(_, _)
CollapseSpace(s, i) ==
    IF i > Len(s) THEN <<>>
    ELSE IF IsSpace(s[i])
         THEN IF i > 1 /\ IsSpace(s[i - 1]) THEN CollapseSpace(s, i + 1)
              ELSE <<" ">> \o CollapseSpace(s, i + 1)
    ELSE <<s[i]>> \o CollapseSpace(s, i + 1)

str_strip(s) ==
    LET inked == {i \in 1..Len(s) : ~IsSpace(s[i])}
    IN IF inked = {} THEN <<>>
       ELSE SubSeq(s, Least(inked), CHOOSE j \in inked : \A k \in inked : k <= j)

\* Lines 11-31.
clean_text(text) ==
    IF text.t # "str" THEN T(<<>>)
    ELSE T(str_strip(CollapseSpace(KeepAllowed(
               StripUrls(StripTags(str_lower(text.s), 1), 1)), 1)))

\* len(text.split())
WordCount(s) ==
    Cardinality({i \in 1..Len(s) : ~IsSpace(s[i]) /\ (i = 1 \/ IsSpace(s[i - 1]))})

\* Lines 63-68.
financial_terms ==
    { <<"s","t","o","c","k">>, <<"m","a","r","k","e","t">>, <<"s","h","a","r","e">>,
      <<"i","n","v","e","s","t">>, <<"t","r","a","d","i","n","g">>, <<"b","o","n","d">>,
      <<"e","t","f">>, <<"d","i","v","i","d","e","n","d">>,
      <<"e","a","r","n","i","n","g","s">>, <<"r","e","v","e","n","u","e">>,
      <<"p","r","o","f","i","t">>, <<"l","o","s","s">>, <<"c","e","o">>,
      <<"c","o","m","p","a","n","y">>, <<"b","a","n","k">>,
      <<"e","c","o","n","o","m","y">>, <<"f","e","d">>,
      <<"i","n","t","e","r","e","s","t">>, <<"r","a","t","e">>,
      <<"i","n","f","l","a","t","i","o","n">>, <<"g","d","p">>, <<"i","p","o">>,
      <<"m","e","r","g","e","r">>, <<"a","c","q","u","i","s","i","t","i","o","n">> }
\* Lines 61-70.
has_financial_terms(s) == \E term \in financial_terms : Contains(str_lower(s), term)

\* Lines 55-59.  A match of the money pattern begins at each "$" that a digit
\* follows and holds no other "$"; a match of the percentage pattern ends at
\* each "%" that follows a digit and holds no other "%": the number of
\* non-overlapping matches is the number of those places.
extract_financial_indicators(s) ==
    [money |-> Cardinality({i \in 1..(Len(s) - 1) : s[i] = "$" /\ IsDigit(s[i + 1])}),
     percentage |-> Cardinality({i \in 2..Len(s) : s[i] = "%" /\ IsDigit(s[i - 1])})]

\* The arguments of a call of clean_text on its own: every text of at most
\* MaxLen characters over CleanAlphabet, and values that are not a str.
CleanAlphabet == {"w", "A", "@", " ", "<", ">"}
CleanTexts == UNION {[1..n -> CleanAlphabet] : n \in 0..MaxLen}
CleanArgs == {T(s) : s \in CleanTexts} \cup {NA, IntC(5), BoolC(TRUE)}

CleanCall ==
    /\ entry = "clean_text" /\ pc = "call"
    /\ ret' = Returned(clean_text(ct_text))
    /\ pc' = "done"
    /\ UNCHANGED <<entry, NEWSPAPER_AVAILABLE, ext_env, fetchVars, saveVars,
                   configVars, collectorVars, prior, fs, enrichVars>>

(***************************************************************************)
(* simple_preprocessing.py: tables                                         *)
(* A file is the table a csv text holds: its columns and, per row, the     *)
(* characters of each cell.  A DataFrame has a dtype per column and typed  *)
(* cells.  The texts of the model hold no spelling of a missing value      *)
(* ("nan", "null", ...), no sign, no exponent and no decimal fraction      *)
(* other than zeros, and processing_date is never a number, so that a row  *)
(* of iterrows keeps the types of its cells.                               *)
(***************************************************************************)
MaxRows == 2           \* most rows in a file given to process_file
MaxPasses == 2         \* most calls of process_file on one file
MaxFiles == 2          \* most files in the list of main

Missing == [st |-> "missing", cols |-> {}, rows |-> <<>>]
Garbled == [st |-> "garbled", cols |-> {}, rows |-> <<>>]
CsvFile(cols, rows) == [st |-> "csv", cols |-> cols, rows |-> rows]

TrueText == <<"T", "r", "u", "e">>
FalseText == <<"F", "a", "l", "s", "e">>
IsIntText(s) == s # <<>> /\ \A i \in 1..Len(s) : IsDigit(s[i])
IsFloatText(s) ==
    \E p \in 2..Len(s) :
        /\ s[p] = "."
        /\ \A i \in 1..(p - 1) : IsDigit(s[i])
        /\ \A i \in (p + 1)..Len(s) : s[i] = "0"
RECURSIVE DigitsValue(_)
DigitsValue(s) ==
    IF s = <<>> THEN 0
    ELSE 10 * DigitsValue(SubSeq(s, 1, Len(s) - 1))
         + (CHOOSE d \in 0..9 : Digits[d + 1] = s[Len(s)])
NumValue(s) ==
    IF IsIntText(s) THEN DigitsValue(s)
    ELSE DigitsValue(SubSeq(s, 1, (CHOOSE p \in 1..Len(s) : s[p] = ".") - 1))
RECURSIVE IntText(_)
IntText(n) ==
    IF n < 10 THEN <<Digits[n + 1]>>
    ELSE IntText(n \div 10) \o <<Digits[(n % 10) + 1]>>

\* pd.read_csv: the dtype it infers for a column.
InferDtype(file, c) ==
    LET cells == {file.rows[i][c] : i \in 1..Len(file.rows)}
    IN IF cells = {} THEN "object"
       ELSE IF cells = {<<>>} THEN "float64"
       ELSE IF \A s \in cells : IsIntText(s) THEN "int64"
       ELSE IF \A s \in cells : s = <<>> \/ IsIntText(s) \/ IsFloatText(s) THEN "float64"
       ELSE IF cells \subseteq {TrueText, FalseText} THEN "bool"
       ELSE "object"
ParseCell(dtype, s) ==
    IF s = <<>> THEN NA
    ELSE IF dtype = "int64" THEN IntC(NumValue(s))
    ELSE IF dtype = "float64" THEN FloatC(NumValue(s))
    ELSE IF dtype = "bool" THEN BoolC(s = TrueText)
    ELSE T(s)
\* Line 85.
read_csv(file) ==
    [dtype |-> [c \in file.cols |-> InferDtype(file, c)],
     rows |-> [i \in 1..Len(file.rows) |->
                  [c \in file.cols |-> ParseCell(InferDtype(file, c), file.rows[i][c])]]]

\* str(value), and the cell to_csv writes for a value that is not missing.
PyStr(v) ==
    IF v.t = "str" THEN v.s
    ELSE IF v.t = "int" THEN IntText(v.n)
    ELSE IF v.t = "float" THEN IntText(v.n) \o <<".", "0">>
    ELSE IF v.n = 1 THEN TrueText ELSE FalseText
\* Line 154.
to_csv(df) ==
    CsvFile(DOMAIN df.dtype,
            [i \in 1..Len(df.rows) |->
                [c \in DOMAIN df.dtype |->
                    IF df.rows[i][c] = NA THEN <<>> ELSE PyStr(df.rows[i][c])]])

\* datetime.now().strftime('%Y-%m-%d') on the day of the k-th call.
Today(k) == T(<<"2", "0", "2", "6", "-", "0", "3", "-", "0", Digits[k + 1]>>)
VersionMarker == T(<<"1", ".", "0">>)
\* The defaults with every count at 1.
default_columns_ones(date) ==
    [c \in {"cleaned_text", "word_count", "char_count", "has_financial_terms",
            "money_mentions", "percentage_mentions", "processing_date",
            "processed_version"} |->
        CASE c = "cleaned_text" -> T(<<>>)
          [] c = "has_financial_terms" -> BoolC(FALSE)
          [] c = "processing_date" -> date
          [] c = "processed_version" -> VersionMarker
          [] OTHER -> IntC(1)]
\* Lines 37-46.
default_columns(date) ==
    [c \in {"cleaned_text", "word_count", "char_count", "has_financial_terms",
            "money_mentions", "percentage_mentions", "processing_date",
            "processed_version"} |->
        CASE c = "cleaned_text" -> T(<<>>)
          [] c = "has_financial_terms" -> BoolC(FALSE)
          [] c = "processing_date" -> date
          [] c = "processed_version" -> VersionMarker
          [] OTHER -> IntC(0)]
DtypeOf(v) ==
    CASE v.t = "int" -> "int64"
      [] v.t = "float" -> "float64"
      [] v.t = "bool" -> "bool"
      [] OTHER -> "object"
\* Lines 33-53.
add_missing_columns(df, date) ==
    LET defaults == default_columns(date)
        cols == DOMAIN df.dtype \cup DOMAIN defaults
    IN [dtype |-> [c \in cols |-> IF c \in DOMAIN df.dtype THEN df.dtype[c]
                                  ELSE DtypeOf(defaults[c])],
        rows |-> [i \in 1..Len(df.rows) |->
                    [c \in cols |-> IF c \in DOMAIN df.dtype THEN df.rows[i][c]
                                    ELSE defaults[c]]]]

\* df.at[idx, col] = value.  A value the column's dtype cannot hold makes the
\* column an object column, or raises TypeError where pandas refuses to.
SetAt(df, idx, col, value, strict) ==
    LET dt == df.dtype[col]
        fits == \/ dt = "object"
                \/ dt = "int64" /\ value.t = "int"
                \/ dt = "float64" /\ value.t \in {"int", "float"}
                \/ dt = "bool" /\ value.t = "bool"
        held == IF dt = "float64" /\ value.t = "int" THEN FloatC(value.n) ELSE value
    IN IF ~fits /\ strict THEN [raised |-> "TypeError", df |-> df]
       ELSE [raised |-> "none",
             df |-> [dtype |-> [df.dtype EXCEPT ![col] = IF fits THEN dt ELSE "object"],
                     rows |-> [df.rows EXCEPT ![idx][col] = held]]]

\* stored != computed, taken as true only where nothing is stored.
DiffersIfMissing(stored, computed) == stored.t \notin {"int", "float", "bool"}
\* stored != computed, lines 121-142.
Differs(stored, computed) ==
    IF stored.t \in {"int", "float", "bool"} THEN stored.n # computed.n ELSE TRUE

\* Lines 104-107.
TEXT_COLUMNS == <<"text", "content", "description", "summary">>
Populated(df, row) ==
    {k \in 1..Len(TEXT_COLUMNS) :
        TEXT_COLUMNS[k] \in DOMAIN df.dtype /\ row[TEXT_COLUMNS[k]] # NA}
SourceText(df, row) ==
    IF Populated(df, row) = {} THEN <<>>
    ELSE PyStr(row[TEXT_COLUMNS[Least(Populated(df, row))]])

\* Line 113, with every row taken as in need of cleaning.
NeedsCleaningAlways(row) == TRUE
\* Line 113.
NeedsCleaning(row) == row["cleaned_text"] = NA \/ row["cleaned_text"] = T(<<>>)

\* Lines 117-144: the derived fields, in the order the code updates them.
Derived(s) ==
    << <<"word_count", IntC(WordCount(s))>>,
       <<"char_count", IntC(Len(s))>>,
       <<"has_financial_terms", BoolC(has_financial_terms(s))>>,
       <<"money_mentions", IntC(extract_financial_indicators(s).money)>>,
       <<"percentage_mentions", IntC(extract_financial_indicators(s).percentage)>> >>
RECURSIVE UpdateDerived(_, _, _, _, _)
UpdateDerived(df, idx, ups, k, strict) ==
    IF k > Len(ups) THEN [raised |-> "none", df |-> df]
    ELSE IF ~Differs(df.rows[idx][ups[k][1]], ups[k][2])
         THEN UpdateDerived(df, idx, ups, k + 1, strict)
    ELSE LET r == SetAt(df, idx, ups[k][1], ups[k][2], strict)
         IN IF r.raised # "none" THEN r
            ELSE UpdateDerived(r.df, idx, ups, k + 1, strict)

\* Lines 100-147 for the row at idx.
ProcessRow(df, idx, strict) ==
    LET row == df.rows[idx]
        text == SourceText(df, row)
        r1 == IF NeedsCleaning(row)
              THEN SetAt(df, idx, "cleaned_text", clean_text(T(text)), strict)
              ELSE [raised |-> "none", df |-> df]
        cleaned == r1.df.rows[idx]["cleaned_text"]
    IN IF text = <<>> THEN [raised |-> "none", df |-> df]
       ELSE IF r1.raised # "none" THEN r1
       ELSE IF cleaned = NA THEN r1
       ELSE IF cleaned.t # "str" THEN [raised |-> "AttributeError", df |-> r1.df]
       ELSE UpdateDerived(r1.df, idx, Derived(cleaned.s), 1, strict)
\* Lines 99-147.
RECURSIVE ProcessRows(_, _, _)
ProcessRows(df, idx, strict) ==
    IF idx > Len(df.rows) THEN [raised |-> "none", df |-> df]
    ELSE LET r == ProcessRow(df, idx, strict)
         IN IF r.raised # "none" THEN r ELSE ProcessRows(r.df, idx + 1, strict)

\* Line 150.
Stamp(df, date) ==
    [dtype |-> [df.dtype EXCEPT !["processing_date"] = "object"],
     rows |-> [i \in 1..Len(df.rows) |-> [df.rows[i] EXCEPT !["processing_date"] = date]]]

NoDf == [dtype |-> [c \in {} |-> "object"], rows |-> <<>>]
\* Lines 72-164: how the call ends, the file it leaves, the table it loaded
\* and the table it handed to to_csv.
process_file(file, strict, date, outcome) ==
    IF file.st # "csv"
    THEN [ret |-> Returned(FALSE), file |-> file, read |-> FALSE,
          loaded |-> NoDf, saved |-> NoDf]
    ELSE LET loaded == read_csv(file)
             r == ProcessRows(add_missing_columns(loaded, date), 1, strict)
             df == Stamp(r.df, date)
         IN IF r.raised # "none"
            THEN [ret |-> Raised(r.raised), file |-> file, read |-> TRUE,
                  loaded |-> loaded, saved |-> NoDf]
            ELSE [ret |-> Returned(outcome = "ok"),
                  file |-> CASE outcome = "ok" -> to_csv(df)
                             [] outcome = "open_failed" -> file
                             [] OTHER -> Garbled,
                  read |-> TRUE, loaded |-> loaded, saved |-> df]

\* The files process_file is given.
tFed == <<"F", "e", "d", " ", "$", "5", " ", "5", "%">>
tFive == <<"5">>
tAt == <<"@">>
tOld == <<"o", "l", "d">>
CellSamples(c) ==
    CASE c = "text" -> {<<>>, tFive, tFed}
      [] c = "description" -> {<<>>, tAt}
      [] c = "cleaned_text" -> {<<>>, tOld, tFive}
      [] c = "word_count" -> {<<>>, <<"7">>}
InputSchemas ==
    {{"text"}, {"text", "description"}, {"text", "cleaned_text"},
     {"text", "word_count"}}
RowsOf(schema) ==
    {r \in [schema -> UNION {CellSamples(c) : c \in schema}] :
        \A c \in schema : r[c] \in CellSamples(c)}
InputFiles ==
    {Missing, Garbled} \cup
    UNION {{CsvFile(schema, rows) :
                rows \in UNION {[1..n -> RowsOf(schema)] : n \in 0..MaxRows}} :
           schema \in InputSchemas}
\* The files of a batch: absent, unreadable, one sound row, and one row whose
\* cleaned_text is a number.
BatchFiles ==
    {Missing, Garbled,
     CsvFile({"text"}, <<[c \in {"text"} |-> tFed]>>),
     CsvFile({"text", "cleaned_text"},
             <<[c \in {"text", "cleaned_text"} |-> tFive]>>)}

Pass(idx, r) ==
    [idx |-> idx, ret |-> r.ret, read |-> r.read, loaded |-> r.loaded, saved |-> r.saved]

\* One call of process_file on the file; the file is then as the call left it.
ProcessFileCall ==
    /\ entry = "process_file" /\ pc = "call"
    /\ Len(passes) < MaxPasses
    /\ \E outcome \in CsvOutcomes :
         LET r == process_file(csv_files[1], setitem_strict, Today(Len(passes) + 1), outcome)
         IN /\ csv_files' = [csv_files EXCEPT ![1] = r.file]
            /\ passes' = Append(passes, Pass(1, r))
            /\ ret' = r.ret
    /\ UNCHANGED <<entry, pc, NEWSPAPER_AVAILABLE, ext_env, fetchVars, saveVars,
                   configVars, collectorVars, prior, fs,
                   ct_text, setitem_strict, file_idx, successful>>

\* Lines 192-194: one turn of the loop of main.
MainFile ==
    /\ entry = "preprocessing_main" /\ pc = "loop"
    /\ file_idx <= Len(csv_files)
    /\ \E outcome \in CsvOutcomes :
         LET r == process_file(csv_files[file_idx], setitem_strict, Today(1), outcome)
         IN /\ csv_files' = [csv_files EXCEPT ![file_idx] = r.file]
            /\ passes' = Append(passes, Pass(file_idx, r))
            /\ IF r.ret.kind = "raise"
               THEN /\ ret' = r.ret /\ pc' = "done"
                    /\ UNCHANGED <<file_idx, successful>>
               ELSE /\ file_idx' = file_idx + 1
                    /\ successful' = IF r.ret.val THEN successful + 1 ELSE successful
                    /\ UNCHANGED <<ret, pc>>
    /\ UNCHANGED <<entry, NEWSPAPER_AVAILABLE, ext_env, fetchVars, saveVars,
                   configVars, collectorVars, prior, fs, ct_text, setitem_strict>>

\* Lines 196-214: the loop is over, main prints its summary and returns.
MainReturn ==
    /\ entry = "preprocessing_main" /\ pc = "loop"
    /\ file_idx > Len(csv_files)
    /\ ret' = Returned(None) /\ pc' = "done"
    /\ UNCHANGED <<entry, NEWSPAPER_AVAILABLE, ext_env, fetchVars, saveVars,
                   configVars, collectorVars, prior, fs, enrichVars>>

(***************************************************************************)
(* Specification                                                           *)
(***************************************************************************)
NoFiles == [p \in Paths |-> NoFile]
ExtractIdle == ext_env = CHOOSE e \in ExtractEnvs : TRUE
FetchIdle ==
    /\ total_articles = 1 /\ page_size = 1 /\ page = 1
    /\ all_articles = <<>> /\ requested = {} /\ reports = {} /\ stop = "none"
    /\ page_trace = NoPage
SaveIdle == sv_articles = <<>> /\ sv_filepath = OutPath
ConfigIdle == has_api_key = FALSE /\ MAX_ARTICLES_PER_RSS_FEED = 1
EnrichIdle ==
    /\ ct_text = NA /\ csv_files = <<>> /\ setitem_strict = FALSE
    /\ passes = <<>> /\ file_idx = 1 /\ successful = 0
\* __init__, lines 27-29.
CollectorInit ==
    /\ newsapi_articles = <<>> /\ rss_articles = <<>> /\ self_all_articles = <<>>
    /\ feed_trace = [f \in 1..Len(RSS_FEEDS) |-> NoFeed]

InitExtract ==
    /\ entry = "extract_article_text" /\ pc = "call" /\ ret = NotCalled
    /\ NEWSPAPER_AVAILABLE \in BOOLEAN
    /\ ext_env \in ExtractEnvs
    /\ FetchIdle /\ SaveIdle /\ ConfigIdle /\ CollectorInit
    /\ prior = NoFile /\ fs = NoFiles
    /\ EnrichIdle

\* Lines 65-67.
InitFetch ==
    /\ entry = "fetch_news_paginated" /\ pc = "loop" /\ ret = NotCalled
    /\ NEWSPAPER_AVAILABLE \in BOOLEAN
    /\ total_articles \in TotalArticlesSet
    /\ page_size = Min(API_MAX_PAGE_SIZE, total_articles)
    /\ page = 1
    /\ all_articles = <<>> /\ requested = {} /\ reports = {} /\ stop = "none"
    /\ page_trace = NoPage
    /\ ExtractIdle /\ SaveIdle /\ ConfigIdle /\ CollectorInit
    /\ prior = NoFile /\ fs = NoFiles
    /\ EnrichIdle

InitSave ==
    /\ entry = "save_articles" /\ pc = "call" /\ ret = NotCalled
    /\ NEWSPAPER_AVAILABLE = TRUE
    /\ sv_articles \in SaveLists
    /\ sv_filepath \in {OutPath, BarePath}
    /\ ExtractIdle /\ FetchIdle /\ ConfigIdle /\ CollectorInit
    /\ prior = NoFile /\ fs = NoFiles
    /\ EnrichIdle

\* The canonical file is absent, or holds what an earlier run saved.
PriorFiles == {NoFile, File(CsvRows(Deduplicated(<<RssArticle(EntryB, "feed2")>>)))}

InitCollector ==
    /\ pc = "start" /\ ret = NotCalled
    /\ NEWSPAPER_AVAILABLE = TRUE
    /\ has_api_key \in BOOLEAN
    /\ MAX_ARTICLES_PER_RSS_FEED \in (MaxCap - 1)..MaxCap
    /\ CollectorInit
    /\ ExtractIdle /\ FetchIdle /\ SaveIdle
    /\ prior \in (IF entry = "main" THEN PriorFiles ELSE {NoFile})
    /\ fs = [NoFiles EXCEPT ![RAW_DATA_PATH] = prior]
    /\ EnrichIdle

InitCollect == entry = "collect_all" /\ InitCollector
InitMain == entry = "main" /\ InitCollector

CollectionIdle ==
    /\ NEWSPAPER_AVAILABLE = TRUE
    /\ ExtractIdle /\ FetchIdle /\ SaveIdle /\ ConfigIdle /\ CollectorInit
    /\ prior = NoFile /\ fs = NoFiles

InitClean ==
    /\ entry = "clean_text" /\ pc = "call" /\ ret = NotCalled
    /\ ct_text \in CleanArgs
    /\ csv_files = <<>> /\ setitem_strict = FALSE
    /\ passes = <<>> /\ file_idx = 1 /\ successful = 0
    /\ CollectionIdle

InitEnrich ==
    /\ entry = "process_file" /\ pc = "call" /\ ret = NotCalled
    /\ \E f \in InputFiles : csv_files = <<f>>
    /\ setitem_strict \in BOOLEAN
    /\ ct_text = NA /\ passes = <<>> /\ file_idx = 1 /\ successful = 0
    /\ CollectionIdle

\* Lines 177-191.
InitBatch ==
    /\ entry = "preprocessing_main" /\ pc = "loop" /\ ret = NotCalled
    /\ csv_files \in UNION {[1..n -> BatchFiles] : n \in 1..MaxFiles}
    /\ setitem_strict \in BOOLEAN
    /\ ct_text = NA /\ passes = <<>> /\ file_idx = 1 /\ successful = 0
    /\ CollectionIdle

Init ==
    \/ InitExtract \/ InitFetch \/ InitSave \/ InitCollect \/ InitMain
    \/ InitClean \/ InitEnrich \/ InitBatch

NextFetch == FetchPage \/ FetchLoopExit \/ FetchSave
NextMain == CollectAll \/ SaveAll
NextBatch == MainFile \/ MainReturn
Next ==
    \/ ExtractCall \/ NextFetch \/ SaveArticlesCall \/ NextMain
    \/ CleanCall \/ ProcessFileCall \/ NextBatch

\* Every entry point.
Spec == Init /\ [][Next]_vars
\* One entry point each.
SpecExtract == InitExtract /\ [][ExtractCall]_vars
SpecFetch == InitFetch /\ [][NextFetch]_vars
SpecSave == InitSave /\ [][SaveArticlesCall]_vars
SpecCollect == InitCollect /\ [][CollectAll]_vars
SpecMain == InitMain /\ [][NextMain]_vars
SpecClean == InitClean /\ [][CleanCall]_vars
SpecEnrich == InitEnrich /\ [][ProcessFileCall]_vars
SpecBatch == InitBatch /\ [][NextBatch]_vars
\* The pagination loop, never left idle while it can take a step.
SpecFetchFair == SpecFetch /\ WF_vars(NextFetch)

(***************************************************************************)
(* Claims                                                                  *)
(***************************************************************************)
Range(seq) == {seq[i] : i \in 1..Len(seq)}

\* The rows of df at the indices in idx, in order.
RECURSIVE Pick(_, _, _)
Pick(df, idx, i) ==
    IF i > Len(df) THEN <<>>
    ELSE (IF i \in idx THEN <<df[i]>> ELSE <<>>) \o Pick(df, idx, i + 1)
\* The indices of the rows no earlier row equals in column col.
FirstOccurrences(df, col) ==
    {i \in 1..Len(df) : \A j \in 1..(i - 1) : df[j][col] # df[i][col]}
KeepFirstBy(df, col) ==
    IF col = "none" THEN df ELSE Pick(df, FirstOccurrences(df, col), 1)

SaveDone == entry = "save_articles" /\ pc = "done" /\ ret = Returned(TRUE)
Persisted == fs[sv_filepath].rows
HasKey(r, x) == x \in DOMAIN r

\* C1 (as amended): the page size is min(100, total_articles); in a run in
\* which the provider reports one total-result count T, no page above
\* floor(T / page size) + 1 is requested; a collector configured for 50
\* articles has page size 50 and, against totalResults = 30, requests page 1
\* and no other.
C1_PagesWithinTotal ==
    entry = "fetch_news_paginated" =>
        /\ page_size = Min(100, total_articles)
        /\ \A t \in reports :
             reports = {t} => \A p \in requested : p <= (t \div page_size) + 1
        /\ (total_articles = 50 /\ reports = {30}) => (page_size = 50 /\ requested = {1})

\* C1: a run stopped by the last-page rule after two pages under one
\* reported total.
C1_Witness ==
    /\ entry = "fetch_news_paginated" /\ stop = "last_page"
    /\ Cardinality(reports) = 1 /\ requested = {1, 2}

\* C1 (as stated): configured for 50 articles against totalResults = 30, the
\* collector pages by 20 and requests pages 1 and 2.
C1_Original ==
    (entry = "fetch_news_paginated" /\ stop = "last_page"
        /\ total_articles = 50 /\ reports = {30})
    => (page_size = 20 /\ requested = {1, 2})

\* C2: after a successful save, every non-empty url of the input is held by
\* exactly one persisted record, that record is the first input record with
\* the url, and the persisted records are in input order.
C2_FirstUrlWins ==
    SaveDone =>
        LET df == DataFrame(sv_articles)
            n == Len(sv_articles)
            Carries(i, u) == HasKey(sv_articles[i], "url") /\ sv_articles[i]["url"] = u
            urls == {sv_articles[i]["url"] :
                        i \in {j \in 1..n : HasKey(sv_articles[j], "url")}} \ {EmptyStr}
            First(u) == CHOOSE i \in 1..n : Carries(i, u) /\ \A j \in 1..(i - 1) : ~Carries(j, u)
            Holding(u) == {k \in 1..Len(Persisted) : Persisted[k]["url"] = u}
        IN /\ \A u \in urls :
                /\ Cardinality(Holding(u)) = 1
                /\ \A k \in Holding(u) : Persisted[k] = CsvRow(df[First(u)])
           /\ \E f \in [1..Len(Persisted) -> 1..n] :
                /\ \A a, b \in 1..Len(Persisted) : a < b => f[a] < f[b]
                /\ \A k \in 1..Len(Persisted) : Persisted[k] = CsvRow(df[f[k]])

\* C2: a successful save of two records with one url and different titles.
C2_Witness ==
    /\ SaveDone
    /\ \E i, j \in 1..Len(sv_articles) :
        /\ i < j
        /\ HasKey(sv_articles[i], "url") /\ HasKey(sv_articles[j], "url")
        /\ HasKey(sv_articles[i], "title") /\ HasKey(sv_articles[j], "title")
        /\ sv_articles[i]["url"] = sv_articles[j]["url"]
        /\ sv_articles[i]["url"] # EmptyStr
        /\ sv_articles[i]["title"] # sv_articles[j]["title"]
    /\ Len(Persisted) < Len(sv_articles)

\* C3: when every record of the input has an empty or missing url and no two
\* records are equal, a successful save persists every one of them.
C3_EmptyUrlsAllKept ==
    (/\ SaveDone
     /\ Len(sv_articles) >= 2
     /\ \A i \in 1..Len(sv_articles) :
          HasKey(sv_articles[i], "url") => sv_articles[i]["url"] = EmptyStr
     /\ \A i, j \in 1..Len(sv_articles) : i # j => sv_articles[i] # sv_articles[j])
    => Len(Persisted) = Len(sv_articles)

\* C4 (as amended): url is the dedup key whenever at least one record of the
\* input has a url field (a record without one counts as holding the null
\* url); title is the key only when no record has a url field and at least
\* one has a title field; the first occurrence is kept.
C4_KeyIsUrlIfAnyRecordHasIt ==
    SaveDone =>
        LET df == DataFrame(sv_articles)
            some(x) == \E i \in 1..Len(sv_articles) : HasKey(sv_articles[i], x)
            key == IF some("url") THEN "url" ELSE IF some("title") THEN "title" ELSE "none"
        IN Persisted = CsvRows(KeepFirstBy(df, key))

\* C4: a successful save of records of which one lacks the url field and two
\* share a title, both of which are persisted.
C4_Witness ==
    /\ SaveDone
    /\ \E i \in 1..Len(sv_articles) : ~HasKey(sv_articles[i], "url")
    /\ \E i \in 1..Len(sv_articles) : HasKey(sv_articles[i], "url")
    /\ \A i \in 1..Len(sv_articles) : HasKey(sv_articles[i], "title")
    /\ \E i, j \in 1..Len(sv_articles) :
         i # j /\ sv_articles[i]["title"] = sv_articles[j]["title"]
    /\ Len(Persisted) = Len(sv_articles)

\* C4 (as stated): url is the key only when every record has a url field;
\* when a record lacks it, duplicates are collapsed by title.
C4_Original ==
    (SaveDone /\ \A i \in 1..Len(sv_articles) : HasKey(sv_articles[i], "title"))
    => LET df == DataFrame(sv_articles)
           key == IF \A i \in 1..Len(sv_articles) : HasKey(sv_articles[i], "url")
                  THEN "url" ELSE "title"
       IN Persisted = CsvRows(KeepFirstBy(df, key))

\* C5: save_articles never raises to its caller.
C5_NeverRaises == entry = "save_articles" => ret.kind # "raise"

\* C6: when save_all returns True, the canonical path and the snapshot of
\* that save both hold the run's deduplicated records.
C6_SuccessMeansBothWritten ==
    (entry = "main" /\ pc = "done" /\ ret = Returned(TRUE))
    => LET want == File(CsvRows(Deduplicated(self_all_articles)))
       IN /\ fs[RAW_DATA_PATH] = want
          /\ fs[Stamped("financial_news_backup", 1)] = want

\* The case of C7: no query articles, a cap of at least 3, one feed whose
\* parse raised and one feed with 3 entries, all of them parsable.
C7_Case ==
    /\ entry = "collect_all" /\ pc = "done"
    /\ newsapi_articles = <<>>
    /\ MAX_ARTICLES_PER_RSS_FEED >= 3
    /\ \E f, g \in 1..Len(RSS_FEEDS) :
        /\ f # g
        /\ feed_trace[f].raises
        /\ ~feed_trace[g].raises /\ feed_trace[g].entries = 3 /\ feed_trace[g].sound = 3

C8_ItemFailureIsolated ==
    /\ (entry = "fetch_news_paginated" /\ page_trace # NoPage)
        => Len(all_articles) = Min(total_articles, page_trace.before + page_trace.sound)
    /\ (entry \in {"collect_all", "main"} /\ pc # "start")
        => \A f \in 1..Len(RSS_FEEDS) :
             Cardinality({i \in 1..Len(rss_articles) :
                            rss_articles[i]["source"] = Lit(RSS_FEEDS[f])})
                = feed_trace[f].sound

\* C9: the text of every collected article is a string, never null.
C9_TextNeverNull ==
    \A a \in Range(all_articles) \cup Range(newsapi_articles) \cup Range(rss_articles) :
        a["text"] # None

\* C10: extract_article_text returns the primary text exactly when the
\* primary extractor yields more than 100 characters; otherwise the page
\* text on a 200 answer, and the empty string in every other case.
C10_FallbackChain ==
    (entry = "extract_article_text" /\ pc = "done")
    => LET primary == /\ NEWSPAPER_AVAILABLE /\ ~ext_env.primary.raises
                      /\ ext_env.primary.text.n > 100
       IN ret = Returned(IF primary THEN ext_env.primary.text
                         ELSE IF ~ext_env.http.raises /\ ext_env.http.status = 200
                              THEN ext_env.http.text
                              ELSE EmptyStr)

\* C15: clean_text returns a string for every argument, the empty string for
\* the empty string and for a value that is not a string, and cleaning its
\* result again changes nothing.
C15_CleanIdempotentTotal ==
    (entry = "clean_text" /\ pc = "done")
    => /\ ret.kind = "return" /\ ret.val.t = "str"
       /\ (ct_text.t # "str" \/ ct_text.s = <<>>) => ret.val = T(<<>>)
       /\ clean_text(ret.val) = ret.val

DerivedColumns ==
    {"cleaned_text", "word_count", "char_count", "has_financial_terms",
     "money_mentions", "percentage_mentions"}
\* The cells of the derived columns, as the pass wrote them.
Written(k) ==
    LET f == to_csv(passes[k].saved)
    IN [i \in 1..Len(f.rows) |-> [c \in DerivedColumns |-> f.rows[i][c]]]
Succeeded(k) == Len(passes) >= k /\ passes[k].ret = Returned(TRUE)

\* C11: a second call of process_file on the file a first successful call
\* wrote raises nothing and, when its own write succeeds, writes the same
\* cleaned_text, word_count, char_count, has_financial_terms, money_mentions
\* and percentage_mentions in every row.
C11_SecondPassChangesNothing ==
    (entry = "process_file" /\ Succeeded(1) /\ Len(passes) >= 2)
    => /\ passes[2].ret.kind = "return"
       /\ Succeeded(2) => Written(2) = Written(1)

\* C14: main returns after one call of process_file per listed file, in
\* order, and no call raises.
C14_BatchIsolatesFailures ==
    (entry = "preprocessing_main" /\ pc = "done")
    => /\ ret.kind = "return"
       /\ Len(passes) = Len(csv_files)
       /\ \A i \in 1..Len(passes) : passes[i].idx = i /\ passes[i].ret.kind = "return"

\* The passes that handed a table to to_csv.
Saving == {k \in 1..Len(passes) : passes[k].read /\ passes[k].ret.kind = "return"}
\* The text a stored cleaned_text stands for.
StoredText(v) == IF v = NA THEN <<>> ELSE PyStr(v)
\* The row holds, in every derived field, the value computed from its
\* cleaned_text.
DerivedFromCleaned(row) ==
    LET ups == Derived(StoredText(row["cleaned_text"]))
    IN \A k \in 1..Len(ups) :
         /\ row[ups[k][1]].t \in {"int", "float", "bool"}
         /\ row[ups[k][1]].n = ups[k][2].n
HasSource(df, row) == Populated(df, row) # {}

\* C12 (as amended): after a successful pass, every row with a populated
\* text source holds in word_count, char_count, has_financial_terms,
\* money_mentions and percentage_mentions the values computed from its stored
\* cleaned_text, whatever it held on load; a row with no populated text
\* source holds the derived values it was loaded with.
C12_DerivedFromCleanedText ==
    entry = "process_file" =>
        \A k \in 1..Len(passes) :
            passes[k].ret = Returned(TRUE) =>
                LET saved == passes[k].saved
                    before == add_missing_columns(passes[k].loaded, Today(k))
                IN \A i \in 1..Len(saved.rows) :
                     IF HasSource(saved, saved.rows[i])
                     THEN DerivedFromCleaned(saved.rows[i])
                     ELSE \A c \in DerivedColumns : saved.rows[i][c] = before.rows[i][c]

\* C12: a successful pass over a row with a text source whose stored
\* word_count was not the one its cleaned_text gives.
C12_Witness ==
    /\ entry = "process_file" /\ Succeeded(1)
    /\ \E i \in 1..Len(passes[1].saved.rows) :
         /\ HasSource(passes[1].saved, passes[1].saved.rows[i])
         /\ "word_count" \in DOMAIN passes[1].loaded.dtype
         /\ passes[1].loaded.rows[i]["word_count"].t \in {"int", "float"}
         /\ passes[1].loaded.rows[i]["word_count"].n # passes[1].saved.rows[i]["word_count"].n

\* C12 (as stated): after a successful pass every row holds the derived
\* values computed from its stored cleaned_text.
C12_Original ==
    entry = "process_file" =>
        \A k \in 1..Len(passes) :
            passes[k].ret = Returned(TRUE) =>
                \A i \in 1..Len(passes[k].saved.rows) :
                    DerivedFromCleaned(passes[k].saved.rows[i])

\* C13: a successful first pass over a file with none of the eight derived
\* columns writes a file with all eight, in which every row with no populated
\* text source holds the empty string, 0, 0, False, 0, 0, the date of the
\* pass and the version marker.
C13_SchemaRepair ==
    (/\ entry = "process_file" /\ Succeeded(1)
     /\ DOMAIN passes[1].loaded.dtype \cap DOMAIN default_columns(Today(1)) = {})
    => LET saved == passes[1].saved
           file == to_csv(saved)
           defaults == [cleaned_text |-> T(<<>>), word_count |-> IntC(0),
                        char_count |-> IntC(0), has_financial_terms |-> BoolC(FALSE),
                        money_mentions |-> IntC(0), percentage_mentions |-> IntC(0),
                        processing_date |-> Today(1),
                        processed_version |-> T(<<"1", ".", "0">>)]
       IN /\ DOMAIN defaults \subseteq file.cols
          /\ \A i \in 1..Len(saved.rows) :
               ~HasSource(saved, saved.rows[i]) =>
                   \A c \in DOMAIN defaults :
                       /\ saved.rows[i][c] = defaults[c]
                       /\ file.rows[i][c] = PyStr(defaults[c])

\* C13: such a pass over a file that has a row with no populated text source.
C13_Witness ==
    /\ entry = "process_file" /\ Succeeded(1)
    /\ DOMAIN passes[1].loaded.dtype \cap DOMAIN default_columns(Today(1)) = {}
    /\ \E i \in 1..Len(passes[1].saved.rows) :
         ~HasSource(passes[1].saved, passes[1].saved.rows[i])
    /\ csv_files[1] = to_csv(passes[1].saved)

\* C16: a pass leaves the cleaned_text of a row as it was loaded when that
\* was not empty, and gives a row a new cleaned_text only when the loaded one
\* was empty or absent and a text source of the row is populated.
C16_CleanedTextKept ==
    entry = "process_file" =>
        \A k \in Saving :
            LET before == add_missing_columns(passes[k].loaded, Today(k))
                saved == passes[k].saved
            IN \A i \in 1..Len(saved.rows) :
                 /\ before.rows[i]["cleaned_text"] \notin {NA, T(<<>>)}
                      => saved.rows[i]["cleaned_text"] = before.rows[i]["cleaned_text"]
                 /\ saved.rows[i]["cleaned_text"] # before.rows[i]["cleaned_text"]
                      => /\ before.rows[i]["cleaned_text"] \in {NA, T(<<>>)}
                         /\ HasSource(before, before.rows[i])

\* C16: a successful pass over a row whose cleaned_text was loaded non-empty
\* and is not the cleaning of the row's text.
C16_Witness ==
    /\ entry = "process_file" /\ Succeeded(1)
    /\ "cleaned_text" \in DOMAIN passes[1].loaded.dtype
    /\ \E i \in 1..Len(passes[1].loaded.rows) :
         LET row == passes[1].loaded.rows[i]
         IN /\ row["cleaned_text"].t = "str"
            /\ HasSource(passes[1].loaded, row)
            /\ clean_text(T(SourceText(passes[1].loaded, row))) # row["cleaned_text"]
            /\ passes[1].saved.rows[i]["cleaned_text"] = row["cleaned_text"]

\* C17: the pagination loop of fetch_news_paginated is left in every run,
\* whatever the provider answers, and the list of collected articles never
\* holds more than total_articles.
C17_LoopEndsWithinTotal ==
    /\ [](Len(all_articles) <= total_articles)
    /\ <>(stop # "none")

\* C17: a run that has left the loop after the provider reported two
\* different totals, one of them far above what the pages held.
C17_Witness ==
    /\ entry = "fetch_news_paginated" /\ stop # "none"
    /\ Cardinality(reports) >= 2 /\ 30 \in reports
    /\ Len(all_articles) = total_articles
====
